---- MODULE Spec2Model ----
(***************************************************************************)
(* Model of the competitor-intel scrape pipeline:                          *)
(*   lib/normalize.ts         parsePrice, buildTitle                       *)
(*   scrapers/base-scraper.ts BaseScraper.cleanItems, BaseScraper.run      *)
(*   lib/change-detection.ts  detectChanges, writeChanges, upsertInventory *)
(*   supabase/migrations/001_initial_schema.sql  the three tables          *)
(*                                                                         *)
(* JavaScript values are tagged records: Null (null and undefined), NaN,   *)
(* a number n/d (d a power of ten, in lowest such form, see Canon) and    *)
(* Str(s), s a sequence of one-character strings.                          *)
(***************************************************************************)
EXTENDS Integers, Sequences, FiniteSets, TLC

VARIABLES
  store,      \* table competitor_inventory: a set of rows
  changeLog,  \* table inventory_changes: rows in insertion order
  jobs,       \* table scrape_jobs: rows in insertion order (id = index)
  targets,    \* table scrape_targets: one row per source
  clock,      \* the wall clock, read by new Date()
  run,        \* per source: the locals of BaseScraper.run and its position
  priceIn,    \* input of parsePrice (normalizer specification)
  priceOut,   \* the price cleanItems stores for priceIn
  fetchSt,    \* the locals of one call of fetchWithRetry and its position
  pager,      \* the locals of one call of a paginated adapter, and the site
  orch,       \* the locals of main() in cli.ts scrape-all or cli-v2.ts --all
  market      \* table market_intel.inventory and the calls made on it

vars ==
  <<store, changeLog, jobs, targets, clock, run, priceIn, priceOut,
    fetchSt, pager, orch, market>>

pipeVars == <<store, changeLog, jobs, targets, clock, run>>

\* what a step of BaseScraper.run never touches
restVars == <<priceIn, priceOut, fetchSt, pager, orch, market>>

----------------------------------------------------------------------------
(* Bounds *)

MaxRuns == 3        \* invocations of BaseScraper.run over all sources
MaxRaw == 2         \* records a scrape returns
MaxPriceLen == 3    \* characters of an enumerated raw price string

----------------------------------------------------------------------------
(* JavaScript values *)

Null == [t |-> "null"]

NaN == [t |-> "nan"]

Str(s) == [t |-> "str", s |-> s]

RECURSIVE Canon(_, _)
Canon(n, d) ==
  IF n = 0 THEN [t |-> "num", num |-> 0, den |-> 1]
  ELSE IF d > 1 /\ n % 10 = 0 THEN Canon(n \div 10, d \div 10)
  ELSE [t |-> "num", num |-> n, den |-> d]

Num(n) == Canon(n, 1)

\* a < b for two numbers
Lt(a, b) == a.num * b.den < b.num * a.den

\* JavaScript truthiness (Boolean(v), the test of filter, || and ?:)
Truthy(v) ==
  CASE v.t = "null" -> FALSE
    [] v.t = "nan" -> FALSE
    [] v.t = "num" -> v.num # 0
    [] v.t = "str" -> v.s # <<>>

Whitespace == {" "}

Digits == {"0", "1", "2", "3", "4", "5", "6", "7", "8", "9"}

DigitVal(c) ==
  CASE c = "0" -> 0 [] c = "1" -> 1 [] c = "2" -> 2 [] c = "3" -> 3
    [] c = "4" -> 4 [] c = "5" -> 5 [] c = "6" -> 6 [] c = "7" -> 7
    [] c = "8" -> 8 [] c = "9" -> 9

RECURSIVE Pow10(_)
Pow10(k) == IF k = 0 THEN 1 ELSE 10 * Pow10(k - 1)

\* String.prototype.trim on the character sequence s
RECURSIVE TrimLeft(_)
TrimLeft(s) ==
  IF s # <<>> /\ Head(s) \in Whitespace THEN TrimLeft(Tail(s)) ELSE s

RECURSIVE TrimRight(_)
TrimRight(s) ==
  IF s # <<>> /\ s[Len(s)] \in Whitespace
  THEN TrimRight(SubSeq(s, 1, Len(s) - 1)) ELSE s

Trim(s) == TrimRight(TrimLeft(s))

----------------------------------------------------------------------------
(* lib/normalize.ts *)

\* raw.replace(/[$,\s]/g, '')
StripPrice(s) == SelectSeq(s, LAMBDA c : c \notin ({"$", ","} \cup Whitespace))

\* length of the run of digits of s that starts at position i
RECURSIVE DigitRun(_, _)
DigitRun(s, i) ==
  IF i <= Len(s) /\ s[i] \in Digits THEN 1 + DigitRun(s, i + 1) ELSE 0

\* value of the n digits of s that start at position i
RECURSIVE DigitsVal(_, _, _)
DigitsVal(s, i, n) ==
  IF n = 0 THEN 0 ELSE DigitsVal(s, i, n - 1) * 10 + DigitVal(s[i + n - 1])

\* parseFloat on a string without leading whitespace: the longest prefix of
\* the form [+-] digits [. digits] or [+-] . digits; NaN when there is none.
\* (Exponents and "Infinity" need letters the enumerated inputs do not have.)
ParseFloat(s) ==
  LET signLen == IF s # <<>> /\ s[1] \in {"+", "-"} THEN 1 ELSE 0
      neg == signLen = 1 /\ s[1] = "-"
      ib == signLen + 1
      il == DigitRun(s, ib)
      hasDot == ib + il <= Len(s) /\ s[ib + il] = "."
      fb == ib + il + 1
      fl == IF hasDot THEN DigitRun(s, fb) ELSE 0
      mag == DigitsVal(s, ib, il) * Pow10(fl) + DigitsVal(s, fb, fl)
  IN IF il = 0 /\ fl = 0 THEN NaN
     ELSE Canon(IF neg THEN 0 - mag ELSE mag, Pow10(fl))

\* parsePrice with the test num < 0 in place of num <= 0
parsePriceKeepsZero(raw) ==
  IF raw.t = "null" THEN Null
  ELSE IF raw.t \in {"num", "nan"}
       THEN (IF raw.t = "num" /\ raw.num >= 0 THEN raw ELSE Null)
  ELSE LET cleaned == StripPrice(raw.s)
           num == ParseFloat(cleaned)
       IN IF num.t = "nan" \/ num.num < 0 THEN Null ELSE num

parsePrice(raw) ==
  IF raw.t = "null" THEN Null
  ELSE IF raw.t \in {"num", "nan"}
       THEN (IF raw.t = "num" /\ raw.num > 0 THEN raw ELSE Null)
  ELSE LET cleaned == StripPrice(raw.s)
           num == ParseFloat(cleaned)
       IN IF num.t = "nan" \/ num.num <= 0 THEN Null ELSE num

\* buildTitle for a record that carries none of year, make, model, size, type
buildTitle(item) == Str(<<"Unknown Trailer">>)

----------------------------------------------------------------------------
(* scrapers/base-scraper.ts: cleanItems *)

MapSeq(f(_), s) == [i \in 1..Len(s) |-> f(s[i])]

cleanItem(companyId, competitorName, item, now) ==
  [ company_id |-> companyId,
    competitor_name |-> competitorName,
    title |-> IF Truthy(item.title) THEN item.title ELSE buildTitle(item),
    price |-> parsePrice(item.price),
    stock_number |-> Str(Trim(item.stock_number.s)),
    status |-> "Available",
    updated_at |-> now ]

cleanItems(companyId, competitorName, rawItems, now) ==
  MapSeq(LAMBDA item : cleanItem(companyId, competitorName, item, now),
         SelectSeq(rawItems, LAMBDA item : Truthy(item.stock_number)))

----------------------------------------------------------------------------
(* supabase/migrations/001_initial_schema.sql and the database operations *)

\* the columns of UNIQUE (company_id, competitor_name, stock_number)
SameKey(r, item) ==
  /\ r.company_id = item.company_id
  /\ r.competitor_name = item.competitor_name
  /\ r.stock_number = item.stock_number

\* an insert that finds no conflict, whatever is stored
ConflictRowsNone(st, item) == {}

\* the rows of the table that conflict with the proposed row
ConflictRows(st, item) == {r \in st : SameKey(r, item)}

\* id BIGINT GENERATED ALWAYS AS IDENTITY (rows are never deleted)
NextId(st) == Cardinality(st) + 1

\* an upsert whose DO UPDATE leaves the status column as it is
UpsertRowKeepsStatus(st, item) ==
  LET hit == ConflictRows(st, item)
  IN IF hit = {}
     THEN st \cup {[ id |-> NextId(st),
                     company_id |-> item.company_id,
                     competitor_name |-> item.competitor_name,
                     title |-> item.title,
                     price |-> item.price,
                     stock_number |-> item.stock_number,
                     status |-> item.status,
                     updated_at |-> item.updated_at ]}
     ELSE (st \ hit) \cup
          {[r EXCEPT !.title = item.title, !.price = item.price,
                     !.updated_at = item.updated_at] : r \in hit}

\* INSERT ... ON CONFLICT (company_id, competitor_name, stock_number)
\* DO UPDATE, for one proposed row: the row it conflicts with takes the
\* proposed columns and keeps its id; without a conflict the row is inserted
UpsertRow(st, item) ==
  LET hit == ConflictRows(st, item)
  IN IF hit = {}
     THEN st \cup {[ id |-> NextId(st),
                     company_id |-> item.company_id,
                     competitor_name |-> item.competitor_name,
                     title |-> item.title,
                     price |-> item.price,
                     stock_number |-> item.stock_number,
                     status |-> item.status,
                     updated_at |-> item.updated_at ]}
     ELSE (st \ hit) \cup
          {[r EXCEPT !.title = item.title, !.price = item.price,
                     !.status = item.status,
                     !.updated_at = item.updated_at] : r \in hit}

RECURSIVE UpsertRows(_, _)
UpsertRows(st, batch) ==
  IF batch = <<>> THEN st
  ELSE UpsertRows(UpsertRow(st, Head(batch)), Tail(batch))

\* the statement fails as a whole when two proposed rows share the conflict
\* key ("ON CONFLICT DO UPDATE command cannot affect row a second time")
BatchConflict(batch) ==
  \E i, j \in 1..Len(batch) : i < j /\ SameKey(batch[i], batch[j])

\* the SELECT without .neq('status', 'Sold')
ExistingRowsWithSold(st, companyId, competitorName) ==
  {r \in st : /\ r.company_id = companyId
              /\ r.competitor_name = competitorName}

\* .eq(company_id).eq(competitor_name).neq('status', 'Sold')
ExistingRows(st, companyId, competitorName) ==
  {r \in st : /\ r.company_id = companyId
              /\ r.competitor_name = competitorName
              /\ r.status # "Sold"}

\* the orders in which a SELECT without ORDER BY may return a set of rows
Orderings(S) ==
  {q \in [1..Cardinality(S) -> S] :
     \A i, j \in 1..Cardinality(S) : i # j => q[i] # q[j]}

\* the update without the filter .eq('competitor_name', ..)
MarkSoldAllSources(st, companyId, competitorName, stocks, now) ==
  {IF /\ r.company_id = companyId
      /\ \E i \in 1..Len(stocks) : stocks[i] = r.stock_number
   THEN [r EXCEPT !.status = "Sold", !.updated_at = now]
   ELSE r : r \in st}

\* .update({status: 'Sold', updated_at}).eq(..).eq(..).in('stock_number', ..)
MarkSold(st, companyId, competitorName, stocks, now) ==
  {IF /\ r.company_id = companyId
      /\ r.competitor_name = competitorName
      /\ \E i \in 1..Len(stocks) : stocks[i] = r.stock_number
   THEN [r EXCEPT !.status = "Sold", !.updated_at = now]
   ELSE r : r \in st}

----------------------------------------------------------------------------
(* lib/change-detection.ts *)

BATCH_SIZE == 1     \* 500 in the source, scaled to the size of the batches

\* a JavaScript Map filled by set(x.stock_number, x) over seq: its keys in
\* order of first insertion, and the value of a key (the last one set)
RECURSIVE MapKeys(_, _)
MapKeys(seq, i) ==
  IF i > Len(seq) THEN <<>>
  ELSE (IF \E j \in 1..(i - 1) : seq[j].stock_number = seq[i].stock_number
        THEN <<>> ELSE <<seq[i].stock_number>>) \o MapKeys(seq, i + 1)

MapHas(seq, k) == \E i \in 1..Len(seq) : seq[i].stock_number = k

MapGet(seq, k) ==
  seq[CHOOSE i \in 1..Len(seq) :
        /\ seq[i].stock_number = k
        /\ \A j \in (i + 1)..Len(seq) : seq[j].stock_number # k]

RECURSIVE FlatMap(_, _)
FlatMap(f(_), s) ==
  IF s = <<>> THEN <<>> ELSE f(Head(s)) \o FlatMap(f, Tail(s))

Change(companyId, competitorName, title, stock, type, old, new) ==
  [ company_id |-> companyId,
    competitor_name |-> competitorName,
    trailer_title |-> title,
    stock_number |-> stock,
    change_type |-> type,
    old_price |-> old,
    new_price |-> new ]

\* the body of the loop over scrapedItems: the events of one item
ItemChanges(companyId, competitorName, existing, item) ==
  IF ~MapHas(existing, item.stock_number)
  THEN <<Change(companyId, competitorName, item.title, item.stock_number,
                "NEW_LISTING", Null, item.price)>>
  ELSE LET prv == MapGet(existing, item.stock_number)
       IN IF prv.price # Null /\ item.price # Null
          THEN IF Lt(item.price, prv.price)
               THEN <<Change(companyId, competitorName, item.title,
                             item.stock_number, "PRICE_DROP",
                             prv.price, item.price)>>
               ELSE IF Lt(prv.price, item.price)
               THEN <<Change(companyId, competitorName, item.title,
                             item.stock_number, "PRICE_INCREASE",
                             prv.price, item.price)>>
               ELSE <<>>
          ELSE <<>>

\* the body of the loop over existingMap: the events of one stored key
RemovedChanges(companyId, competitorName, existing, scrapedItems, stock) ==
  IF ~MapHas(scrapedItems, stock)
  THEN LET prv == MapGet(existing, stock)
       IN <<Change(companyId, competitorName, prv.title, stock,
                   "REMOVED", prv.price, Null)>>
  ELSE <<>>

\* detectChanges, given the rows its SELECT returned
detectChanges(companyId, competitorName, scrapedItems, existing) ==
  FlatMap(LAMBDA item :
            ItemChanges(companyId, competitorName, existing, item),
          scrapedItems)
  \o
  FlatMap(LAMBDA stock :
            RemovedChanges(companyId, competitorName, existing,
                           scrapedItems, stock),
          MapKeys(existing, 1))

\* a deduplication in which the first occurrence of a key wins
dedupedItemsFirst(items) ==
  MapSeq(LAMBDA k : items[CHOOSE i \in 1..Len(items) :
                            /\ items[i].stock_number = k
                            /\ \A j \in 1..(i - 1) :
                                 items[j].stock_number # k],
         MapKeys(items, 1))

\* upsertInventory, lines 138-141: deduplicate, last occurrence wins
dedupedItems(items) ==
  MapSeq(LAMBDA k : MapGet(items, k), MapKeys(items, 1))

\* a chunk that takes everything from position i on
SliceRest(items, i) == SubSeq(items, i + 1, Len(items))

\* dedupedItems.slice(i, i + BATCH_SIZE)
Slice(items, i) ==
  SubSeq(items, i + 1,
         IF i + BATCH_SIZE < Len(items) THEN i + BATCH_SIZE ELSE Len(items))

\* BaseScraper.run, lines 136-139: the stock numbers of the REMOVED events,
\* without the falsy ones
removedStocks(changes) ==
  SelectSeq(MapSeq(LAMBDA c : c.stock_number,
                   SelectSeq(changes, LAMBDA c : c.change_type = "REMOVED")),
            Truthy)

----------------------------------------------------------------------------
(* scrapers/base-scraper.ts: BaseScraper.run, one action per await *)

CompanyId == "c1"

Sources == {"s1", "s2"}     \* competitor names, one scraper each

Solo == {"s1"}              \* the sources run by the sequential specification

\* a raw record; the fields of RawInventoryItem that only feed buildTitle or
\* are copied to the row unread (make, model, type, condition, ...) are left
\* out
RawItem(stock, price) == [stock_number |-> stock, price |-> price, title |-> Null]

\* the records a scrape may return: no stock number, a blank one, one unit
\* at three prices, and a second unit
RawItems ==
  { RawItem(Str(<<>>), Null),
    RawItem(Str(<<" ">>), Null),
    RawItem(Str(<<"A">>), Null),
    RawItem(Str(<<"A">>), Str(<<"$", "9", "0">>)),
    RawItem(Str(<<"A">>), Num(100)),
    RawItem(Str(<<"B">>), Num(100)) }

RawBatches == UNION {[1..n -> RawItems] : n \in 0..MaxRaw}

\* the locals of run() before the call; targetId "" and job 0 stand for
\* undefined, timestamp 0 for NULL; appended counts the events the run has
\* inserted into inventory_changes, stamped tells whether it has updated
\* its target
IdleRun ==
  [ pc |-> "idle", targetId |-> "", job |-> 0,
    raw |-> <<>>, clean |-> <<>>, changes |-> <<>>,
    deduped |-> <<>>, i |-> 0, removed |-> <<>>, error |-> Null,
    result |-> [error |-> Null, itemsFound |-> 0, changesDetected |-> 0],
    prevOk |-> FALSE, prevItems |-> <<>>, snap |-> {},
    appended |-> 0, stamped |-> FALSE ]

OwnRows(st, s) ==
  {r \in st : r.company_id = CompanyId /\ r.competitor_name = s}

\* the return statements of run(), lines 164-177 and 193-203
Return(r) ==
  [r EXCEPT !.pc = "done",
            !.result =
              IF r.error = Null
              THEN [error |-> Null, itemsFound |-> Len(r.clean),
                    changesDetected |-> Len(r.changes)]
              ELSE [error |-> r.error, itemsFound |-> 0,
                    changesDetected |-> 0]]

\* a throw inside the try block: the catch clause, lines 178-191
Throw(r, msg) ==
  LET e == [r EXCEPT !.error = Str(<<msg>>)]
  IN IF r.job # 0 THEN [e EXCEPT !.pc = "catch"] ELSE Return(e)

\* what follows step 7 (lines 150-162)
AfterTarget(r) == IF r.job # 0 THEN [r EXCEPT !.pc = "job"] ELSE Return(r)

\* what follows the removed-marking update (lines 142-148)
AfterMark(r) ==
  IF r.targetId # "" THEN [r EXCEPT !.pc = "target"] ELSE AfterTarget(r)

\* the head of the chunk loop of upsertInventory and what follows the loop
AfterUpsert(r) ==
  IF r.i < Len(r.deduped) THEN [r EXCEPT !.pc = "upsert"]
  ELSE IF Len(r.removed) > 0 THEN [r EXCEPT !.pc = "mark"]
  ELSE AfterMark(r)

\* lines 91-104: the job record is inserted; an insert error is not looked at
Start(s, E) ==
  /\ run[s].pc \in {"idle", "done"}
  /\ clock < MaxRuns
  /\ clock' = clock + 1
  /\ \E tid \in E.targetIds \cap {"", s}, inserted \in E.acks :
       /\ jobs' = IF inserted
                  THEN Append(jobs, [ company_id |-> CompanyId,
                                      target_id |-> tid,
                                      status |-> "running",
                                      completed_at |-> 0,
                                      items_found |-> Null,
                                      changes_detected |-> Null,
                                      error_message |-> Null ])
                  ELSE jobs
       /\ run' = [run EXCEPT ![s] =
            [IdleRun EXCEPT
               !.pc = "scrape",
               !.targetId = tid,
               !.job = IF inserted THEN Len(jobs) + 1 ELSE 0,
               !.prevOk = (run[s].pc = "done" /\ run[s].result.error = Null),
               !.prevItems = IF run[s].pc = "done" /\ run[s].result.error = Null
                             THEN run[s].clean ELSE <<>>,
               !.snap = OwnRows(store, s)]]
  /\ UNCHANGED <<store, changeLog, targets, restVars>>

\* lines 109-122: the scrape returns raw records, which are cleaned
ScrapeOk(s, E) ==
  /\ run[s].pc = "scrape"
  /\ \E raw \in E.batches :
       run' = [run EXCEPT ![s].raw = raw,
                          ![s].clean = cleanItems(CompanyId, s, raw, clock),
                          ![s].pc = "detect"]
  /\ UNCHANGED <<store, changeLog, jobs, targets, clock, restVars>>

\* lines 109-117: the browser or the site-specific scrape throws
ScrapeThrow(s) ==
  /\ run[s].pc = "scrape"
  /\ run' = [run EXCEPT ![s] = Throw(run[s], "scrape failed")]
  /\ UNCHANGED <<store, changeLog, jobs, targets, clock, restVars>>

\* line 125 and detectChanges: the SELECT answers, the changes are computed
\* (rawItems is not used after line 121)
DetectOk(s) ==
  /\ run[s].pc = "detect"
  /\ \E existing \in Orderings(ExistingRows(store, CompanyId, s)) :
       run' = [run EXCEPT
                 ![s].changes =
                    detectChanges(CompanyId, s, run[s].clean, existing),
                 ![s].raw = <<>>,
                 ![s].pc = "write"]
  /\ UNCHANGED <<store, changeLog, jobs, targets, clock, restVars>>

\* change-detection.ts line 42
DetectErr(s) ==
  /\ run[s].pc = "detect"
  /\ run' = [run EXCEPT ![s] =
               Throw([run[s] EXCEPT !.raw = <<>>],
                     "Failed to fetch existing inventory")]
  /\ UNCHANGED <<store, changeLog, jobs, targets, clock, restVars>>

\* the locals of upsertInventory at its entry (lines 136-141)
EnterUpsert(r) ==
  AfterUpsert([r EXCEPT !.removed = removedStocks(r.changes),
                        !.deduped = dedupedItems(r.clean),
                        !.i = 0])

\* an insert that replaces what the table holds
InsertChangesOver(log, changes) == changes

\* change-detection.ts lines 120-124: .from('inventory_changes').insert(changes)
InsertChanges(log, changes) == log \o changes

\* line 133 and writeChanges: nothing is sent for an empty list
WriteOk(s) ==
  /\ run[s].pc = "write"
  /\ changeLog' = InsertChanges(changeLog, run[s].changes)
  /\ run' = [run EXCEPT ![s] =
               EnterUpsert([run[s] EXCEPT !.appended = Len(run[s].changes)])]
  /\ UNCHANGED <<store, jobs, targets, clock, restVars>>

\* change-detection.ts line 126
WriteErr(s) ==
  /\ run[s].pc = "write"
  /\ Len(run[s].changes) > 0
  /\ run' = [run EXCEPT ![s] = Throw(run[s], "Failed to write changes")]
  /\ UNCHANGED <<store, changeLog, jobs, targets, clock, restVars>>

\* change-detection.ts lines 145-153: one chunk is written
UpsertOk(s) ==
  /\ run[s].pc = "upsert"
  /\ LET batch == Slice(run[s].deduped, run[s].i)
     IN /\ ~BatchConflict(batch)
        /\ store' = UpsertRows(store, batch)
  /\ run' = [run EXCEPT ![s] =
               AfterUpsert([run[s] EXCEPT !.i = run[s].i + BATCH_SIZE])]
  /\ UNCHANGED <<changeLog, jobs, targets, clock, restVars>>

\* change-detection.ts line 153
UpsertErr(s) ==
  /\ run[s].pc = "upsert"
  /\ run' = [run EXCEPT ![s] = Throw(run[s], "Upsert batch failed")]
  /\ UNCHANGED <<store, changeLog, jobs, targets, clock, restVars>>

\* change-detection.ts lines 157-163
MarkOk(s) ==
  /\ run[s].pc = "mark"
  /\ store' = MarkSold(store, CompanyId, s, run[s].removed, clock)
  /\ run' = [run EXCEPT ![s] = AfterMark(run[s])]
  /\ UNCHANGED <<changeLog, jobs, targets, clock, restVars>>

\* change-detection.ts line 165
MarkErr(s) ==
  /\ run[s].pc = "mark"
  /\ run' = [run EXCEPT ![s] =
               Throw(run[s], "Failed to mark removed items")]
  /\ UNCHANGED <<store, changeLog, jobs, targets, clock, restVars>>

\* an update without the filter .eq('id', targetId)
StampAllTargets(tg, id, now) ==
  [x \in DOMAIN tg |-> [tg[x] EXCEPT !.last_scraped_at = now]]

\* lines 144-147: .update({last_scraped_at}).eq('id', targetId)
StampTarget(tg, id, now) == [tg EXCEPT ![id].last_scraped_at = now]

\* lines 143-148; the result of the update is not looked at
TargetUpdate(s, E) ==
  /\ run[s].pc = "target"
  /\ \E done \in E.acks :
       /\ targets' = IF done
                     THEN StampTarget(targets, run[s].targetId, clock)
                     ELSE targets
       /\ run' = [run EXCEPT ![s] =
                    AfterTarget([run[s] EXCEPT !.stamped = done])]
  /\ UNCHANGED <<store, changeLog, jobs, clock, restVars>>

\* lines 152-162; the result of the update is not looked at
JobSuccess(s, E) ==
  /\ run[s].pc = "job"
  /\ \E done \in E.acks :
       jobs' = IF done
               THEN [jobs EXCEPT ![run[s].job] =
                      [@ EXCEPT !.status = "success",
                                !.completed_at = clock,
                                !.items_found = Num(Len(run[s].clean)),
                                !.changes_detected =
                                   Num(Len(run[s].changes))]]
               ELSE jobs
  /\ run' = [run EXCEPT ![s] = Return(run[s])]
  /\ UNCHANGED <<store, changeLog, targets, clock, restVars>>

\* lines 182-191; the result of the update is not looked at
JobFailed(s, E) ==
  /\ run[s].pc = "catch"
  /\ \E done \in E.acks :
       jobs' = IF done
               THEN [jobs EXCEPT ![run[s].job] =
                      [@ EXCEPT !.status = "failed",
                                !.completed_at = clock,
                                !.error_message = run[s].error]]
               ELSE jobs
  /\ run' = [run EXCEPT ![s] = Return(run[s])]
  /\ UNCHANGED <<store, changeLog, targets, clock, restVars>>

\* one step of the run of source s in environment E: the batches a scrape
\* may return (batches), the forms of the call, with and without a target id
\* (targetIds), and whether a write whose result run() does not look at
\* takes effect (acks)
Step(s, E) ==
  \/ Start(s, E)
  \/ ScrapeOk(s, E)
  \/ ScrapeThrow(s)
  \/ DetectOk(s)
  \/ DetectErr(s)
  \/ WriteOk(s)
  \/ WriteErr(s)
  \/ UpsertOk(s)
  \/ UpsertErr(s)
  \/ MarkOk(s)
  \/ MarkErr(s)
  \/ TargetUpdate(s, E)
  \/ JobSuccess(s, E)
  \/ JobFailed(s, E)

NoPrice == [t |-> "none"]

\* no call of fetchWithRetry under way
FetchIdle ==
  [ pc |-> "idle", maxRetries |-> 0, attempt |-> 0, lastError |-> Null,
    res |-> Null, thrown |-> Null, tries |-> <<>>, waits |-> <<>> ]

\* no adapter call under way
PagerIdle ==
  [ pc |-> "idle", kind |-> "none", total |-> 0, noSku |-> {},
    currentPage |-> 1, emptyPages |-> 0, all |-> <<>>, log |-> <<>> ]

\* no orchestrator under way
OrchIdle ==
  [ pc |-> "idle", cli |-> "none", list |-> <<>>, i |-> 0,
    results |-> <<>>, dropped |-> {}, exit |-> 0 ]

\* market_intel.inventory empty, no call of the v2 upsert made
NoMarket == [unique |-> FALSE, rows |-> {}, calls |-> 0]

\* the components other than the pipeline, at rest
InitRest ==
  /\ fetchSt = FetchIdle
  /\ pager = PagerIdle
  /\ orch = OrchIdle
  /\ market = NoMarket

\* the database after the migration, no run under way
InitPipe ==
  /\ store = {}
  /\ changeLog = <<>>
  /\ jobs = <<>>
  /\ targets = [s \in Sources |-> [is_active |-> TRUE, last_scraped_at |-> 0]]
  /\ clock = 0
  /\ run = [s \in Sources |-> IdleRun]

Init ==
  /\ InitPipe
  /\ InitRest
  /\ priceIn = Null
  /\ priceOut = NoPrice

\* the inventory pipeline: every batch, every thrown error; runs are called
\* with their target id and the unchecked bookkeeping writes take effect
DataEnv == [batches |-> RawBatches, targetIds |-> Sources, acks |-> {TRUE}]

Next == \E s \in Solo : Step(s, DataEnv)

Spec == Init /\ [][Next]_vars

----------------------------------------------------------------------------
(* The normalizer on its own: cleanItems applied to one record whose raw   *)
(* price ranges over strings, numbers and null.                            *)

PriceChars == {"$", ",", " ", "-", ".", "0", "5", "x"}

PriceStrings == UNION {[1..n -> PriceChars] : n \in 0..MaxPriceLen}

PriceExamples ==
  { <<"$", "1", "2", ",", "3", "4", "5">>, <<"$", "0">>, <<"-", "5">>,
    <<"1", "2", ".", "5", "0">>, <<"0", ".", "0", "0", "1">> }

PriceNumbers == {Num(0), Num(0 - 5), Num(12345), Canon(5, 10), NaN}

PriceInputs ==
  {Null} \cup PriceNumbers \cup {Str(x) : x \in PriceStrings \cup PriceExamples}

InitNorm ==
  /\ InitPipe
  /\ InitRest
  /\ priceIn \in PriceInputs
  /\ priceOut = NoPrice

NormalizePrice ==
  /\ priceOut = NoPrice
  /\ priceOut' =
       cleanItems(CompanyId, "s1",
                  <<[stock_number |-> Str(<<"A">>), price |-> priceIn,
                     title |-> Null]>>, 0)[1].price
  /\ UNCHANGED <<pipeVars, market, priceIn, fetchSt, pager, orch>>

NextNorm == NormalizePrice

SpecNorm == InitNorm /\ [][NextNorm]_vars

----------------------------------------------------------------------------
(* core/fetch-with-retry.ts: one call of fetchWithRetry, one action per    *)
(* way an attempt ends and one for the end of a backoff wait.              *)

MaxRetries == 3     \* the largest maxRetries option a call is made with

HttpStatuses == {200, 404, 500}

\* Response.ok
ResOk(status) == status >= 200 /\ status <= 299

\* a Response with the given status
Response(status) == [t |-> "res", status |-> status]

\* an Error: "http" is new Error(`HTTP ${res.status}: ...`) of line 31,
\* "transport" a rejection of fetch, "abort" the rejection caused by
\* controller.abort(), "generic" the Error of line 50
FetchError(kind, status) == [t |-> "error", kind |-> kind, status |-> status]

RECURSIVE Pow2(_)
Pow2(k) == IF k = 0 THEN 1 ELSE 2 * Pow2(k - 1)

\* a delay of 1000 ms after every failed attempt
BackoffFlat(attempt) == 1000

\* const delay = 1000 * Math.pow(2, attempt), lines 32 and 43
Backoff(attempt) == 1000 * Pow2(attempt)

\* a loop that runs one attempt more
MoreAttemptsOneMore(attempt, maxRetries) == attempt <= maxRetries + 1

\* the loop condition of line 18
MoreAttempts(attempt, maxRetries) == attempt <= maxRetries

\* the head of the for loop with its counter at f.attempt, and line 50
LoopHead(f) ==
  IF MoreAttempts(f.attempt, f.maxRetries)
  THEN [f EXCEPT !.pc = "fetch"]
  ELSE [f EXCEPT !.pc = "thrown",
                 !.thrown = IF f.lastError # Null THEN f.lastError
                            ELSE FetchError("generic", 0)]

\* the call fetchWithRetry(url, {maxRetries}), lines 10-18
FetchCall(maxRetries) ==
  LoopHead([FetchIdle EXCEPT !.maxRetries = maxRetries])

\* lines 23-38: fetch resolves with a response
Respond ==
  /\ fetchSt.pc = "fetch"
  /\ \E status \in HttpStatuses :
       LET f == [fetchSt EXCEPT !.tries = Append(@, Response(status))]
       IN fetchSt' =
            IF ~ResOk(status) /\ f.attempt < f.maxRetries
            THEN [f EXCEPT !.lastError = FetchError("http", status),
                           !.waits = Append(@, Backoff(f.attempt)),
                           !.pc = "sleep"]
            ELSE [f EXCEPT !.res = Response(status), !.pc = "returned"]
  /\ UNCHANGED <<pipeVars, market, priceIn, priceOut, pager, orch>>

\* what the catch clause does with the error err, lines 39-47
Caught(f, err) ==
  LET g == [f EXCEPT !.tries = Append(@, err), !.lastError = err]
  IN IF g.attempt < g.maxRetries
     THEN [g EXCEPT !.waits = Append(@, Backoff(g.attempt)), !.pc = "sleep"]
     ELSE LoopHead([g EXCEPT !.attempt = @ + 1])

\* line 23: fetch rejects (DNS, connection refused, reset)
TransportError ==
  /\ fetchSt.pc = "fetch"
  /\ fetchSt' = Caught(fetchSt, FetchError("transport", 0))
  /\ UNCHANGED <<pipeVars, market, priceIn, priceOut, pager, orch>>

\* lines 20-21: the timer fires before fetch resolves, the controller
\* aborts the request and fetch rejects
TimeoutAbort ==
  /\ fetchSt.pc = "fetch"
  /\ fetchSt' = Caught(fetchSt, FetchError("abort", 0))
  /\ UNCHANGED <<pipeVars, market, priceIn, priceOut, pager, orch>>

\* lines 34-35 and 45: the backoff wait ends, attempt++
Wake ==
  /\ fetchSt.pc = "sleep"
  /\ fetchSt' = LoopHead([fetchSt EXCEPT !.attempt = @ + 1])
  /\ UNCHANGED <<pipeVars, market, priceIn, priceOut, pager, orch>>

InitFetch ==
  /\ InitPipe
  /\ market = NoMarket
  /\ priceIn = Null
  /\ priceOut = NoPrice
  /\ pager = PagerIdle
  /\ orch = OrchIdle
  /\ fetchSt \in {FetchCall(m) : m \in 0..MaxRetries}

NextFetch == Respond \/ TransportError \/ TimeoutAbort \/ Wake

SpecFetch == InitFetch /\ [][NextFetch]_vars

----------------------------------------------------------------------------
(* BaseScraper.run with its bookkeeping: the run is called with or without *)
(* a target id, and the three writes whose result run() does not look at   *)
(* (the insert of the job record and the updates of lines 144, 153 and     *)
(* 183) may fail, as every other write of the pipeline may.                *)

JobBatches ==
  { <<>>,
    <<RawItem(Str(<<"A">>), Num(100))>>,
    <<RawItem(Str(<<"A">>), Null), RawItem(Str(<<"B">>), Num(100))>> }

JobEnv == [batches |-> JobBatches, targetIds |-> {""} \cup Sources,
           acks |-> BOOLEAN]

NextJob == \E s \in Solo : Step(s, JobEnv)

SpecJob == Init /\ [][NextJob]_vars

----------------------------------------------------------------------------
(* The orchestrators: cli.ts scrape-all, which calls BaseScraper.run for   *)
(* every active target, and cli-v2.ts --all, which loads the map module of *)
(* every dealer and calls runDealer.                                       *)

\* a target of the list: its source, and whether what the orchestrator
\* needs before it can run it is there (cli.ts: getScraper finds a scraper
\* for scraper_key; cli-v2.ts: map.ts exists and exports mapRawItems)
OrchTarget(name, loadable) == [name |-> name, loadable |-> loadable]

TargetLists ==
  { <<OrchTarget(a, fa), OrchTarget(b, fb)>> :
      a \in Sources, b \in Sources, fa \in BOOLEAN, fb \in BOOLEAN }
  \ { l \in [1..2 -> [name : Sources, loadable : BOOLEAN]] :
        l[1].name = l[2].name }

\* the target the loop is at
Current == orch.list[orch.i + 1]

\* a RunResult or ScrapeResult, reduced to what the summary reads
Outcome(name, error) == [name |-> name, error |-> error]

\* process.exit(failed.length > 0 ? 1 : 0)
ExitCode(results) ==
  IF \E j \in 1..Len(results) : results[j].error # Null THEN 1 ELSE 0

\* cli.ts lines 95-100: no scraper is registered for the key of the target
SkipTarget ==
  /\ orch.cli = "cli" /\ orch.pc = "loop"
  /\ orch.i < Len(orch.list)
  /\ ~Current.loadable
  /\ orch' = [orch EXCEPT !.i = @ + 1, !.dropped = @ \cup {orch.i + 1}]
  /\ UNCHANGED <<pipeVars, market, priceIn, priceOut, fetchSt, pager>>

\* cli.ts line 103: scraper.run(companyId, target.id) is called
CallRun ==
  /\ orch.cli = "cli" /\ orch.pc = "loop"
  /\ orch.i < Len(orch.list)
  /\ Current.loadable
  /\ orch' = [orch EXCEPT !.pc = "await"]
  /\ UNCHANGED <<pipeVars, market, priceIn, priceOut, fetchSt, pager>>

\* cli.ts lines 103-105: run() has returned its result
RunReturned ==
  /\ orch.cli = "cli" /\ orch.pc = "await"
  /\ run[Current.name].pc = "done"
  /\ orch' = [orch EXCEPT
                !.results = Append(@, Outcome(Current.name,
                                              run[Current.name].result.error)),
                !.i = @ + 1,
                !.pc = "loop"]
  /\ UNCHANGED <<pipeVars, market, priceIn, priceOut, fetchSt, pager>>

\* cli.ts lines 109-118
Summary ==
  /\ orch.cli = "cli" /\ orch.pc = "loop"
  /\ orch.i = Len(orch.list)
  /\ orch' = [orch EXCEPT !.pc = "exit", !.exit = ExitCode(orch.results)]
  /\ UNCHANGED <<pipeVars, market, priceIn, priceOut, fetchSt, pager>>

\* cli-v2.ts line 133 and loadDealerMap: the map module is loaded, or
\* loadDealerMap throws and main().catch ends the process (lines 150-153)
LoadDealerMap ==
  /\ orch.cli = "cli-v2" /\ orch.pc = "loop"
  /\ orch.i < Len(orch.list)
  /\ orch' = IF Current.loadable
             THEN [orch EXCEPT !.pc = "run"]
             ELSE [orch EXCEPT !.pc = "fatal", !.exit = 1,
                               !.dropped = @ \cup {orch.i + 1}]
  /\ UNCHANGED <<pipeVars, market, priceIn, priceOut, fetchSt, pager>>

\* cli-v2.ts lines 134-136: runDealer returns its result, with or without
\* an error (runner.ts lines 99-124)
RunDealer ==
  /\ orch.cli = "cli-v2" /\ orch.pc = "run"
  /\ \E error \in {Null, Str(<<"adapter failed">>)} :
       orch' = [orch EXCEPT
                  !.results = Append(@, Outcome(Current.name, error)),
                  !.i = @ + 1,
                  !.pc = "loop"]
  /\ UNCHANGED <<pipeVars, market, priceIn, priceOut, fetchSt, pager>>

\* cli-v2.ts lines 139-146
SummaryV2 ==
  /\ orch.cli = "cli-v2" /\ orch.pc = "loop"
  /\ orch.i = Len(orch.list)
  /\ orch' = [orch EXCEPT !.pc = "exit", !.exit = ExitCode(orch.results)]
  /\ UNCHANGED <<pipeVars, market, priceIn, priceOut, fetchSt, pager>>

OrchBatches == {<<>>, <<RawItem(Str(<<"A">>), Num(100))>>}

\* scrape-all passes target.id; the unchecked writes take effect
OrchEnv == [batches |-> OrchBatches, targetIds |-> Sources, acks |-> {TRUE}]

\* the run that scrape-all awaits takes a step
RunStep ==
  /\ orch.cli = "cli" /\ orch.pc = "await"
  /\ run[Current.name].pc # "done"
  /\ Step(Current.name, OrchEnv)

\* a store in which an earlier run has listed one unit of every source
SeededStore ==
  { [ id |-> 1, company_id |-> CompanyId, competitor_name |-> "s1",
      title |-> Str(<<"Unknown Trailer">>), price |-> Num(100),
      stock_number |-> Str(<<"B">>), status |-> "Available",
      updated_at |-> 0 ],
    [ id |-> 2, company_id |-> CompanyId, competitor_name |-> "s2",
      title |-> Str(<<"Unknown Trailer">>), price |-> Num(100),
      stock_number |-> Str(<<"B">>), status |-> "Available",
      updated_at |-> 0 ] }

InitOrch ==
  /\ store = SeededStore
  /\ market = NoMarket
  /\ changeLog = <<>>
  /\ jobs = <<>>
  /\ targets = [s \in Sources |-> [is_active |-> TRUE, last_scraped_at |-> 0]]
  /\ clock = 0
  /\ run = [s \in Sources |-> IdleRun]
  /\ priceIn = Null
  /\ priceOut = NoPrice
  /\ fetchSt = FetchIdle
  /\ pager = PagerIdle
  /\ orch \in { [OrchIdle EXCEPT !.pc = "loop", !.cli = c, !.list = l] :
                  c \in {"cli", "cli-v2"}, l \in TargetLists }

NextOrch ==
  \/ SkipTarget
  \/ CallRun
  \/ RunStep
  \/ RunReturned
  \/ Summary
  \/ LoadDealerMap
  \/ RunDealer
  \/ SummaryV2

SpecOrch == InitOrch /\ [][NextOrch]_vars

----------------------------------------------------------------------------
(* Two target pipelines of one tenant under way at once: the steps of the  *)
(* runs of both sources interleave in every order. Every source has one    *)
(* unit listed by an earlier run.                                          *)

PairEnv == [batches |-> JobBatches, targetIds |-> Sources, acks |-> {TRUE}]

InitPair ==
  /\ store = SeededStore
  /\ changeLog = <<>>
  /\ jobs = <<>>
  /\ targets = [s \in Sources |-> [is_active |-> TRUE, last_scraped_at |-> 0]]
  /\ clock = 0
  /\ run = [s \in Sources |-> IdleRun]
  /\ InitRest
  /\ priceIn = Null
  /\ priceOut = NoPrice

NextPair == \E s \in Sources : Step(s, PairEnv)

SpecPair == InitPair /\ [][NextPair]_vars

----------------------------------------------------------------------------
(* A run whose extraction may never complete: the scrape of a site awaits  *)
(* fetch(url) without a timeout or an abort signal (nc-trailers.ts line    *)
(* 103), so the await of line 117 of run() is not bound to end. Every      *)
(* statement sent to the database is answered.                             *)

HangEnv == [batches |-> OrchBatches, targetIds |-> Sources, acks |-> {TRUE}]

\* the steps of run() that follow an answer of the database
Settle(s) ==
  \/ DetectOk(s)
  \/ DetectErr(s)
  \/ WriteOk(s)
  \/ WriteErr(s)
  \/ UpsertOk(s)
  \/ UpsertErr(s)
  \/ MarkOk(s)
  \/ MarkErr(s)
  \/ TargetUpdate(s, HangEnv)
  \/ JobSuccess(s, HangEnv)
  \/ JobFailed(s, HangEnv)

\* the steps that depend on the scraped site and on the caller
Extract(s) ==
  \/ Start(s, HangEnv)
  \/ ScrapeOk(s, HangEnv)
  \/ ScrapeThrow(s)

NextHang == \E s \in Solo : Extract(s) \/ Settle(s)

SpecHang ==
  /\ InitPair
  /\ [][NextHang]_vars
  /\ \A s \in Solo : WF_vars(Settle(s))

----------------------------------------------------------------------------
(* The paginated adapters: scrape of platforms/woocommerce-store-api.ts    *)
(* and NcTrailersScraper.scrapeInventory, one action per way the fetch of  *)
(* a page ends. The site holds products 1..total and does not change       *)
(* during a scrape; the products in noSku have no SKU.                     *)

MaxListings == 4    \* products on the site

perPage == 2        \* 100 and 10 in the source, scaled to the site

Min(a, b) == IF a < b THEN a ELSE b

\* the JSON array the Store API answers for ?per_page=perPage&page=p
PageOf(total, p) ==
  [k \in 1..(Min(p * perPage, total) - Min((p - 1) * perPage, total))
     |-> (p - 1) * perPage + k]

\* what the adapter keeps of a page: woocommerce pushes every product,
\* NC Trailers those parseProduct does not reject (line 151: no SKU)
Kept(g, products) ==
  IF g.kind = "nctrailers"
  THEN SelectSeq(products, LAMBDA x : x \notin g.noSku)
  ELSE products

\* one entry per fetch: the page asked for, how the fetch ended ("page" a
\* 2xx answer with its array, "http" a non-2xx answer, "error" a rejection
\* of fetch or of res.json()), and the number of products answered
Logged(g, how, n) ==
  [g EXCEPT !.log = Append(@, [page |-> g.currentPage, how |-> how, n |-> n])]

\* the call of the adapter: woocommerce navigates first (line 287)
PagerCall(kind, total, noSku) ==
  [PagerIdle EXCEPT !.pc = IF kind = "woocommerce" THEN "goto" ELSE "fetch",
                    !.kind = kind, !.total = total, !.noSku = noSku]

\* part_001 lines 304-319, nc-trailers.ts lines 105-133: a 2xx answer
AfterPage(g) ==
  LET products == PageOf(g.total, g.currentPage)
      h == Logged(g, "page", Len(products))
  IN IF Len(products) = 0
     THEN IF h.emptyPages + 1 >= 2
          THEN [h EXCEPT !.emptyPages = @ + 1, !.pc = "returned"]
          ELSE [h EXCEPT !.emptyPages = @ + 1, !.currentPage = @ + 1]
     ELSE LET a == [h EXCEPT !.emptyPages = 0,
                             !.all = @ \o Kept(g, products)]
          IN IF g.kind = "woocommerce" /\ Len(products) < perPage
             THEN [a EXCEPT !.pc = "returned"]
             ELSE [a EXCEPT !.currentPage = @ + 1]

\* part_001 line 304, nc-trailers.ts lines 105-108: if (!res.ok) break
AfterHttp(g) == [Logged(g, "http", 0) EXCEPT !.pc = "returned"]

\* part_001 lines 323-327, nc-trailers.ts lines 135-141: the catch clause
AfterThrow(g) ==
  LET h == Logged(g, "error", 0)
  IN IF h.emptyPages + 1 >= 3
     THEN [h EXCEPT !.emptyPages = @ + 1, !.pc = "returned",
                    !.currentPage = IF g.kind = "nctrailers"
                                    THEN @ + 1 ELSE @]
     ELSE [h EXCEPT !.emptyPages = @ + 1, !.currentPage = @ + 1]

\* part_001 lines 287-288: the navigation to the dealer's site succeeds
GotoOk ==
  /\ pager.pc = "goto"
  /\ pager' = [pager EXCEPT !.pc = "fetch"]
  /\ UNCHANGED <<pipeVars, market, priceIn, priceOut, fetchSt, orch>>

\* part_001 line 287: page.goto throws (site down, timeout)
GotoThrow ==
  /\ pager.pc = "goto"
  /\ pager' = [pager EXCEPT !.pc = "thrown"]
  /\ UNCHANGED <<pipeVars, market, priceIn, priceOut, fetchSt, orch>>

PageOk ==
  /\ pager.pc = "fetch"
  /\ pager' = AfterPage(pager)
  /\ UNCHANGED <<pipeVars, market, priceIn, priceOut, fetchSt, orch>>

PageHttp ==
  /\ pager.pc = "fetch"
  /\ pager' = AfterHttp(pager)
  /\ UNCHANGED <<pipeVars, market, priceIn, priceOut, fetchSt, orch>>

PageThrow ==
  /\ pager.pc = "fetch"
  /\ pager' = AfterThrow(pager)
  /\ UNCHANGED <<pipeVars, market, priceIn, priceOut, fetchSt, orch>>

InitPager ==
  /\ InitPipe
  /\ market = NoMarket
  /\ priceIn = Null
  /\ priceOut = NoPrice
  /\ fetchSt = FetchIdle
  /\ orch = OrchIdle
  /\ pager \in { PagerCall(kind, total, noSku) :
                   kind \in {"woocommerce", "nctrailers"},
                   total \in 0..MaxListings,
                   noSku \in {{}, {1}} }

NextPager == GotoOk \/ GotoThrow \/ PageOk \/ PageHttp \/ PageThrow

SpecPager == InitPager /\ [][NextPager]_vars

----------------------------------------------------------------------------
(* The faceted-search adapter: scrape of platforms/facetwp.ts, one action  *)
(* per way an await ends. The site holds products 1..total, answers per    *)
(* products a page, and does not change during a scrape; the cards of the  *)
(* products in untitled have no heading link.                              *)

\* settings.pager.total_pages of the site's answers
TotalPages(total, per) == (total + per - 1) \div per

\* the cards of data.template for paged = p
Template(g, p) ==
  [k \in 1..(Min(p * g.per, g.total) - Min((p - 1) * g.per, g.total))
     |-> (p - 1) * g.per + k]

\* part_001 lines 179-236: a card is kept if (title || url)
parseCards(g, html) == SelectSeq(html, LAMBDA x : x \notin g.untitled)

\* the call of the adapter and its locals; fwpJson tells whether the
\* rendered page defines window.FWP_JSON
FacetCall(total, per, fwpJson, untitled) ==
  [ pc |-> "goto", kind |-> "facetwp", total |-> total, per |-> per,
    fwpJson |-> fwpJson, untitled |-> untitled,
    total_pages |-> 0, pg |-> 1, allCards |-> <<>>, warned |-> {},
    error |-> Null ]

\* a throw out of the adapter
FacetThrow(g, msg) == [g EXCEPT !.pc = "thrown", !.error = Str(<<msg>>)]

\* the head of the loop of line 127
FacetLoop(g) ==
  IF g.pg <= g.total_pages THEN [g EXCEPT !.pc = "page"]
  ELSE [g EXCEPT !.pc = "returned"]

\* lines 41-42: the navigation succeeds
FacetGotoOk ==
  /\ pager.kind = "facetwp" /\ pager.pc = "goto"
  /\ pager' = [pager EXCEPT !.pc = "config"]
  /\ UNCHANGED <<pipeVars, market, priceIn, priceOut, fetchSt, orch>>

\* line 41: page.goto throws
FacetGotoThrow ==
  /\ pager.kind = "facetwp" /\ pager.pc = "goto"
  /\ pager' = FacetThrow(pager, "page.goto")
  /\ UNCHANGED <<pipeVars, market, priceIn, priceOut, fetchSt, orch>>

\* lines 45-60: FWP_JSON is read; without it the adapter throws
ReadConfig ==
  /\ pager.kind = "facetwp" /\ pager.pc = "config"
  /\ pager' = IF pager.fwpJson THEN [pager EXCEPT !.pc = "first"]
               ELSE FacetThrow(pager, "FWP_JSON not found on page")
  /\ UNCHANGED <<pipeVars, market, priceIn, priceOut, fetchSt, orch>>

\* lines 80-122: the first page is answered with its pager and parsed
FirstOk ==
  /\ pager.kind = "facetwp" /\ pager.pc = "first"
  /\ pager' = FacetLoop([pager EXCEPT
                 !.total_pages = TotalPages(pager.total, pager.per),
                 !.allCards = parseCards(pager, Template(pager, 1)),
                 !.pg = 2])
  /\ UNCHANGED <<pipeVars, market, priceIn, priceOut, fetchSt, orch>>

\* lines 101 and 111-119: a non-2xx answer, or an answer without
\* settings.pager; and a rejection of fetch or of resp.json()
FirstFails ==
  /\ pager.kind = "facetwp" /\ pager.pc = "first"
  /\ \E msg \in {"FacetWP API error", "FacetWP response missing pager data",
                  "fetch"} :
       pager' = FacetThrow(pager, msg)
  /\ UNCHANGED <<pipeVars, market, priceIn, priceOut, fetchSt, orch>>

\* lines 130-168: page pg is answered and its cards are pushed
FacetPageOk ==
  /\ pager.kind = "facetwp" /\ pager.pc = "page"
  /\ pager' = FacetLoop([pager EXCEPT
                 !.allCards = @ \o parseCards(pager, Template(pager, pager.pg)),
                 !.pg = @ + 1])
  /\ UNCHANGED <<pipeVars, market, priceIn, priceOut, fetchSt, orch>>

\* lines 154 and 161-164: a non-2xx answer is warned about and the loop
\* continues with the next page
FacetPageHttp ==
  /\ pager.kind = "facetwp" /\ pager.pc = "page"
  /\ pager' = FacetLoop([pager EXCEPT !.warned = @ \cup {pager.pg},
                                      !.pg = @ + 1])
  /\ UNCHANGED <<pipeVars, market, priceIn, priceOut, fetchSt, orch>>

\* lines 130-159: fetch or resp.json() rejects inside page.evaluate
FacetPageThrow ==
  /\ pager.kind = "facetwp" /\ pager.pc = "page"
  /\ pager' = FacetThrow(pager, "fetch")
  /\ UNCHANGED <<pipeVars, market, priceIn, priceOut, fetchSt, orch>>

InitFacet ==
  /\ InitPipe
  /\ market = NoMarket
  /\ priceIn = Null
  /\ priceOut = NoPrice
  /\ fetchSt = FetchIdle
  /\ orch = OrchIdle
  /\ pager \in { FacetCall(total, per, fwpJson, untitled) :
                   total \in 0..MaxListings, per \in 1..perPage,
                   fwpJson \in BOOLEAN, untitled \in {{}, {1}} }

NextFacet ==
  \/ FacetGotoOk
  \/ FacetGotoThrow
  \/ ReadConfig
  \/ FirstOk
  \/ FirstFails
  \/ FacetPageOk
  \/ FacetPageHttp
  \/ FacetPageThrow

SpecFacet == InitFacet /\ [][NextFacet]_vars

----------------------------------------------------------------------------
(* The v2 upsert into market_intel.inventory: upsertInventory(dealerId,    *)
(* items), one action per call (the CLI makes one call at a time). The     *)
(* definition of the table is not part of the sources, so whether it has   *)
(* unique indexes on (dealer_id, vin) and (dealer_id, stock_number) is     *)
(* left open: market.unique tells whether it has.                          *)

MaxCalls == 3       \* calls of upsertInventory

MaxItems == 2       \* items of a call

DealerId == "d1"

\* an InventoryItem; the fields copied to the row unread are left out
InventoryItem(vin, stockNumber) == [vin |-> vin, stockNumber |-> stockNumber]

\* one unit seen with and without its VIN, and with its stock number
\* padded; and a record with no key at all
MarketItems ==
  { InventoryItem(v, k) :
      v \in {Null, Str(<<"V">>)},
      k \in {Null, Str(<<"S">>), Str(<<"S", " ">>)} }

MarketBatches == UNION {[1..n -> MarketItems] : n \in 1..MaxItems}

\* v?.trim() || null
TrimOrNull(v) ==
  IF v.t = "str" /\ Trim(v.s) # <<>> THEN Str(Trim(v.s)) ELSE Null

\* part_002 lines 231-251
toDbRow(dealerId, item, now) ==
  [ dealer_id |-> dealerId,
    vin |-> TrimOrNull(item.vin),
    stock_number |-> TrimOrNull(item.stockNumber),
    scraped_at |-> now ]

\* .maybeSingle(): the row if exactly one matches; data is null when none
\* matches and when several do (the error is not looked at)
MaybeSingle(S) == IF Cardinality(S) = 1 THEN CHOOSE x \in S : TRUE ELSE Null

\* two rows of one dealer with the same VIN or the same stock number
KeyClash(rows) ==
  \E a, b \in rows :
    /\ a.id # b.id
    /\ a.dealer_id = b.dealer_id
    /\ \/ a.vin # Null /\ a.vin = b.vin
       \/ a.stock_number # Null /\ a.stock_number = b.stock_number

\* a statement that would leave the table as rows2: a table with unique
\* indexes rejects it when two rows clash (the error is only logged)
Exec(m, rows2) ==
  IF m.unique /\ KeyClash(rows2) THEN m ELSE [m EXCEPT !.rows = rows2]

\* .insert(row)
InsertInto(m, row) ==
  Exec(m, m.rows \cup
          {[ id |-> NextId(m.rows), dealer_id |-> row.dealer_id,
             vin |-> row.vin, stock_number |-> row.stock_number,
             scraped_at |-> row.scraped_at ]})

\* lines 119-160: the body of the loop of upsertByVin
ByVin(m, dealerId, item, now) ==
  LET vin == Str(Trim(item.vin.s))
      existing == MaybeSingle({r \in m.rows : /\ r.dealer_id = dealerId
                                              /\ r.vin = vin})
      row == toDbRow(dealerId, item, now)
  IN IF existing # Null
     THEN Exec(m, (m.rows \ {existing}) \cup
                  {[existing EXCEPT !.scraped_at = row.scraped_at,
                                    !.stock_number = row.stock_number]})
     ELSE InsertInto(m, row)

\* lines 174-223: the body of the loop of upsertByStockNumber
ByStockNumber(m, dealerId, item, now) ==
  LET stockNumber == item.stockNumber
      row == toDbRow(dealerId, item, now)
  IN IF ~Truthy(stockNumber) \/ Trim(stockNumber.s) = <<>>
     THEN InsertInto(m, row)
     ELSE LET existing ==
                MaybeSingle({r \in m.rows : /\ r.dealer_id = dealerId
                                            /\ r.stock_number = stockNumber})
          IN IF existing # Null
             THEN Exec(m, (m.rows \ {existing}) \cup
                          {[existing EXCEPT !.scraped_at = row.scraped_at,
                                            !.vin = row.vin]})
             ELSE InsertInto(m, row)

\* line 85: item.vin && item.vin.trim()
HasVin(item) == Truthy(item.vin) /\ Trim(item.vin.s) # <<>>

RECURSIVE upsertByVin(_, _, _, _)
upsertByVin(m, dealerId, items, now) ==
  IF items = <<>> THEN m
  ELSE upsertByVin(ByVin(m, dealerId, Head(items), now),
                   dealerId, Tail(items), now)

RECURSIVE upsertByStockNumber(_, _, _, _)
upsertByStockNumber(m, dealerId, items, now) ==
  IF items = <<>> THEN m
  ELSE upsertByStockNumber(ByStockNumber(m, dealerId, Head(items), now),
                           dealerId, Tail(items), now)

\* lines 72-109: the items with a VIN first, then the others (the chunks
\* of 500 are handled one after the other, item by item)
upsertInventory(m, dealerId, items, now) ==
  upsertByStockNumber(
    upsertByVin(m, dealerId, SelectSeq(items, HasVin), now),
    dealerId, SelectSeq(items, LAMBDA x : ~HasVin(x)), now)

\* one call of upsertInventory
UpsertInventoryCall ==
  /\ market.calls < MaxCalls
  /\ \E items \in MarketBatches :
       market' = [upsertInventory(market, DealerId, items, market.calls + 1)
                    EXCEPT !.calls = market.calls + 1]
  /\ UNCHANGED <<pipeVars, priceIn, priceOut, fetchSt, pager, orch>>

InitMarket ==
  /\ InitPipe
  /\ priceIn = Null
  /\ priceOut = NoPrice
  /\ fetchSt = FetchIdle
  /\ pager = PagerIdle
  /\ orch = OrchIdle
  /\ market \in {[NoMarket EXCEPT !.unique = u] : u \in BOOLEAN}

NextMarket == UpsertInventoryCall

SpecMarket == InitMarket /\ [][NextMarket]_vars

----------------------------------------------------------------------------
(* Properties *)

\* the stored rows of source s that are not removed
Listed(s) ==
  {q \in store : /\ q.company_id = CompanyId
                 /\ q.competitor_name = s
                 /\ q.status # "Sold"}

ListedKeys(s) == {q.stock_number : q \in Listed(s)}

StoredAs(s, k) == CHOOSE q \in Listed(s) : q.stock_number = k

FreshKeys(s) == {run[s].clean[i].stock_number : i \in 1..Len(run[s].clean)}

\* the positions of the events of the run of s that carry stock number k
EventsOf(s, k) ==
  {j \in 1..Len(run[s].changes) : run[s].changes[j].stock_number = k}

\* an item or a row without its timestamp
Untimed(x) == [x EXCEPT !.updated_at = 0]

\* detectChanges of the run of s has just returned
Detected(s) == run[s].pc = "write"

\* the run of s has returned with error = null
Succeeded(s) == run[s].pc = "done" /\ run[s].result.error = Null

\* C1: when the run before succeeded and this run has the identical batch
\* (timestamps aside), this run detects no change and, once it has
\* succeeded, the rows of the source are what they were when it started
C1_IdempotentRerun ==
  \A s \in Sources :
    (run[s].prevOk /\
     MapSeq(Untimed, run[s].clean) = MapSeq(Untimed, run[s].prevItems))
    => /\ Detected(s) => run[s].changes = <<>>
       /\ Succeeded(s) =>
            {Untimed(q) : q \in OwnRows(store, s)}
              = {Untimed(q) : q \in run[s].snap}

\* C2: the batch handed to detectChanges never holds two items with the
\* same stock_number
C2_BatchKeysUnique ==
  \A s \in Sources :
    \A i, j \in 1..Len(run[s].clean) :
      i # j => run[s].clean[i].stock_number # run[s].clean[j].stock_number

\* C3: competitor_inventory holds at most one row per
\* (company_id, competitor_name, stock_number)
C3_StoreKeysUnique ==
  \A q1, q2 \in store :
    ( /\ q1.company_id = q2.company_id
      /\ q1.competitor_name = q2.competitor_name
      /\ q1.stock_number = q2.stock_number ) => q1 = q2

\* a successful run whose batch named one key twice, on a store that an
\* upsert of two chunks had filled
C3_Witness ==
  \E s \in Sources :
    /\ Succeeded(s)
    /\ Len(run[s].clean) = 2
    /\ Len(run[s].deduped) = 1
    /\ Cardinality(OwnRows(store, s)) = 2

\* C4: a fresh item whose key is not stored as non-removed gets exactly one
\* event, NEW_LISTING with old_price null and new_price the item's price
C4_NewListing ==
  \A s \in Sources :
    Detected(s) =>
      \A i \in 1..Len(run[s].clean) :
        LET item == run[s].clean[i]
        IN item.stock_number \notin ListedKeys(s)
           => /\ Cardinality(EventsOf(s, item.stock_number)) = 1
              /\ \A j \in EventsOf(s, item.stock_number) :
                   /\ run[s].changes[j].change_type = "NEW_LISTING"
                   /\ run[s].changes[j].old_price = Null
                   /\ run[s].changes[j].new_price = item.price

\* C5: a fresh item stored as non-removed, both prices non-null and
\* different, gets exactly one event: PRICE_DROP when new < old,
\* PRICE_INCREASE when new > old, with old_price the stored price and
\* new_price the fresh price
C5_PriceChange ==
  \A s \in Sources :
    Detected(s) =>
      \A i \in 1..Len(run[s].clean) :
        LET item == run[s].clean[i]
        IN ( /\ item.stock_number \in ListedKeys(s)
             /\ item.price # Null
             /\ StoredAs(s, item.stock_number).price # Null
             /\ item.price # StoredAs(s, item.stock_number).price )
           => /\ Cardinality(EventsOf(s, item.stock_number)) = 1
              /\ \A j \in EventsOf(s, item.stock_number) :
                   /\ run[s].changes[j].change_type =
                        IF Lt(item.price, StoredAs(s, item.stock_number).price)
                        THEN "PRICE_DROP" ELSE "PRICE_INCREASE"
                   /\ run[s].changes[j].old_price =
                        StoredAs(s, item.stock_number).price
                   /\ run[s].changes[j].new_price = item.price

\* C6: a key stored as non-removed and present in the batch gets no event
\* when the prices are equal or when either price is null
C6_NoEventOnEqualOrNull ==
  \A s \in Sources :
    Detected(s) =>
      \A i \in 1..Len(run[s].clean) :
        LET item == run[s].clean[i]
        IN ( /\ item.stock_number \in ListedKeys(s)
             /\ \/ item.price = Null
                \/ StoredAs(s, item.stock_number).price = Null
                \/ item.price = StoredAs(s, item.stock_number).price )
           => EventsOf(s, item.stock_number) = {}

\* C7: every key stored as non-removed and absent from the batch gets
\* exactly one REMOVED event, with old_price the stored price and new_price
\* null; no other key gets a REMOVED event; and two stored keys with a batch
\* of one of them at its stored price give that one event and nothing else
C7_Removed ==
  \A s \in Sources :
    Detected(s) =>
      /\ \A q \in Listed(s) :
           q.stock_number \notin FreshKeys(s)
           => /\ Cardinality(EventsOf(s, q.stock_number)) = 1
              /\ \A j \in EventsOf(s, q.stock_number) :
                   /\ run[s].changes[j].change_type = "REMOVED"
                   /\ run[s].changes[j].old_price = q.price
                   /\ run[s].changes[j].new_price = Null
      /\ \A j \in 1..Len(run[s].changes) :
           run[s].changes[j].change_type = "REMOVED"
           => /\ run[s].changes[j].stock_number \in ListedKeys(s)
              /\ run[s].changes[j].stock_number \notin FreshKeys(s)
      /\ ( /\ Cardinality(Listed(s)) = 2
           /\ Len(run[s].clean) = 1
           /\ \E q \in Listed(s) :
                /\ q.stock_number = run[s].clean[1].stock_number
                /\ q.price = run[s].clean[1].price )
         => /\ Len(run[s].changes) = 1
            /\ run[s].changes[1].change_type = "REMOVED"
            /\ run[s].changes[1].stock_number
                 \notin FreshKeys(s)

\* two stored keys, a batch of one of them at its stored price, and the
\* single REMOVED event detected
C7_Witness ==
  \E s \in Sources :
    /\ Detected(s)
    /\ Cardinality(Listed(s)) = 2
    /\ Len(run[s].clean) = 1
    /\ \E q \in Listed(s) :
         /\ q.stock_number = run[s].clean[1].stock_number
         /\ q.price = run[s].clean[1].price
    /\ Len(run[s].changes) = 1
    /\ run[s].changes[1].change_type = "REMOVED"

\* C8: no row that was stored when a run started is missing later, and
\* after a successful run every key it reported REMOVED has its row still,
\* with status Sold, updated_at refreshed and the other columns as before
C8_SoftDelete ==
  \A s \in Sources :
    /\ \A q \in run[s].snap : \E q2 \in store : q2.id = q.id
    /\ Succeeded(s) =>
         \A j \in 1..Len(run[s].changes) :
           run[s].changes[j].change_type = "REMOVED"
           => \E q \in run[s].snap, q2 \in store :
                /\ q.stock_number = run[s].changes[j].stock_number
                /\ q2.id = q.id
                /\ q2.status = "Sold"
                /\ q2.updated_at > q.updated_at
                /\ [q2 EXCEPT !.status = q.status,
                              !.updated_at = q.updated_at] = q

\* C9: the normalized price is null or a number > 0; null, NaN, numbers
\* <= 0 and strings without a digit give null; "$12,345" gives 12345 and
\* "$0" and "-5" give null
C9_PriceNullOrPositive ==
  priceOut # NoPrice =>
    /\ priceOut = Null \/ (priceOut.t = "num" /\ priceOut.num > 0)
    /\ priceIn = Str(<<"$", "1", "2", ",", "3", "4", "5">>)
         => priceOut = Num(12345)
    /\ priceIn \in {Str(<<"$", "0">>), Str(<<"-", "5">>)} => priceOut = Null
    /\ priceIn.t \in {"null", "nan"} => priceOut = Null
    /\ (priceIn.t = "num" /\ priceIn.num <= 0) => priceOut = Null
    /\ (priceIn.t = "num" /\ priceIn.num > 0) => priceOut = priceIn
    /\ (priceIn.t = "str" /\ \A i \in 1..Len(priceIn.s) :
                                priceIn.s[i] \notin Digits)
         => priceOut = Null

\* "$12,345" has been normalized to 12345
C9_Witness ==
  /\ priceIn = Str(<<"$", "1", "2", ",", "3", "4", "5">>)
  /\ priceOut = Num(12345)

\* C10: every item of the normalized batch, and every stored row, has a
\* non-empty stock_number
C10_KeyNonEmpty ==
  /\ \A s \in Sources :
       \A i \in 1..Len(run[s].clean) : run[s].clean[i].stock_number.s # <<>>
  /\ \A q \in store : q.stock_number.s # <<>>

\* an attempt that did not end in a 2xx response
FailedTry(x) == x.t = "error" \/ ~ResOk(x.status)

\* the call of fetchWithRetry has returned or thrown
FetchEnded == fetchSt.pc \in {"returned", "thrown"}

\* C11: a call makes at most maxRetries + 1 attempts, makes none after an
\* attempt that got a 2xx response, and ends only on a 2xx response or
\* after attempt number maxRetries + 1, whichever way the attempts failed
C11_BoundedAttempts ==
  fetchSt.pc # "idle" =>
    /\ Len(fetchSt.tries) <= fetchSt.maxRetries + 1
    /\ \A k \in 1..(Len(fetchSt.tries) - 1) : FailedTry(fetchSt.tries[k])
    /\ FetchEnded =>
         /\ Len(fetchSt.tries) >= 1
         /\ \/ ~FailedTry(fetchSt.tries[Len(fetchSt.tries)])
            \/ Len(fetchSt.tries) = fetchSt.maxRetries + 1
    /\ fetchSt.pc \in {"fetch", "sleep"}
         => Len(fetchSt.tries) < fetchSt.maxRetries + 1

\* maxRetries = 2: a non-2xx response, a timeout abort, then a 2xx
\* response on the third try, which is returned
C11_Witness ==
  /\ fetchSt.pc = "returned"
  /\ fetchSt.maxRetries = 2
  /\ Len(fetchSt.tries) = 3
  /\ fetchSt.tries[1] = Response(500)
  /\ fetchSt.tries[2] = FetchError("abort", 0)
  /\ fetchSt.tries[3] = Response(200)

\* C12: when all maxRetries + 1 attempts failed the call throws the reason
\* of the last failure and returns no response
C12_ThrowsWhenExhausted ==
  ( /\ FetchEnded
    /\ \A k \in 1..Len(fetchSt.tries) : FailedTry(fetchSt.tries[k]) )
  => /\ fetchSt.pc = "thrown"
     /\ fetchSt.res = Null
     /\ LET last == fetchSt.tries[Len(fetchSt.tries)]
        IN fetchSt.thrown =
             IF last.t = "error" THEN last
             ELSE FetchError("http", last.status)

\* C13: the k-th wait of a call, the one after failed attempt number k - 1,
\* lasts 1000 * 2^(k - 1) ms, and every failed attempt but the last
\* allowed one is followed by a wait
C13_BackoffDoubles ==
  /\ \A k \in 1..Len(fetchSt.waits) :
       fetchSt.waits[k] = <<1000, 2000, 4000, 8000, 16000>>[k]
  /\ fetchSt.pc = "sleep" => Len(fetchSt.waits) = Len(fetchSt.tries)
  /\ fetchSt.pc = "fetch" => Len(fetchSt.waits) = Len(fetchSt.tries)

\* three waits, after a non-2xx response, a transport error and a timeout
C13_Witness ==
  /\ fetchSt.waits = <<1000, 2000, 4000>>
  /\ fetchSt.tries[1] = Response(404)
  /\ fetchSt.tries[2] = FetchError("transport", 0)
  /\ fetchSt.tries[3] = FetchError("abort", 0)

\* the scrape_jobs record of the run of s
JobOf(s) == jobs[run[s].job]

\* scrape_jobs.status is terminal
Terminal(status) == status \in {"success", "failed"}

\* C14: a run has its job record, in status running, from before the
\* extraction until the run completes, and the record is success or failed
\* once run() has returned; a record that is success or failed never changes
\* again, and a record only ever leaves running for success or failed
C14_JobLifecycle ==
  /\ [](\A s \in Sources :
          run[s].pc # "idle" =>
            /\ run[s].job # 0
            /\ run[s].pc \in {"scrape", "detect", "write", "upsert", "mark",
                              "target", "job", "catch"}
                 => JobOf(s).status = "running"
            /\ run[s].pc = "done" => Terminal(JobOf(s).status))
  /\ [][ /\ Len(jobs') >= Len(jobs)
         /\ \A j \in 1..Len(jobs) :
              /\ Terminal(jobs[j].status) => jobs'[j] = jobs[j]
              /\ jobs'[j].status # jobs[j].status
                   => Terminal(jobs'[j].status) ]_vars

\* C15: a run that has its job record and returns with an error leaves the
\* record failed with that error message; the record is success only when
\* the run went through every stage without an error; and between the
\* throw and the return nothing is written to the inventory, the change
\* log or the targets
C15_FailureRecorded ==
  /\ [](\A s \in Sources :
          run[s].job # 0 =>
            /\ (run[s].pc = "done" /\ run[s].error # Null)
                 => /\ JobOf(s).status = "failed"
                    /\ JobOf(s).error_message = run[s].error
            /\ JobOf(s).status = "success"
                 => /\ run[s].pc = "done"
                    /\ run[s].error = Null
                    /\ run[s].i >= Len(run[s].deduped))
  /\ [][ \A s \in Sources :
           (run[s].error # Null /\ run[s].pc # "done")
             => UNCHANGED <<store, changeLog, targets>> ]_vars

\* the orchestrator has ended, by process.exit or by a fatal error
OrchEnded == orch.pc \in {"exit", "fatal"}

\* C16: when the orchestrator has ended, it ended with the summary, and
\* every target of the list other than those that could not be started has
\* been run and has its outcome among the results
C16_SiblingsStillRun ==
  OrchEnded =>
    /\ orch.pc = "exit"
    /\ \A k \in 1..Len(orch.list) :
         k \notin orch.dropped
         => \E j \in 1..Len(orch.results) :
              orch.results[j].name = orch.list[k].name

\* the error upsertInventory throws when the write of a chunk fails
ChunkFailed(s) == run[s].error = Str(<<"Upsert batch failed">>)

\* C17: when the write of a chunk has failed, the failure has reached
\* run(), and the rows of the source are those the run found, changed by
\* the chunks written before the failing one and by nothing else: no later
\* chunk, no removed-marking, no rollback
C17_ChunkFailureAborts ==
  \A s \in Sources :
    ChunkFailed(s) =>
      /\ run[s].pc \in {"catch", "done"}
      /\ run[s].i < Len(run[s].deduped)
      /\ OwnRows(store, s)
           = UpsertRows(run[s].snap, SubSeq(run[s].deduped, 1, run[s].i))

\* the second of two chunks failed: the row of the first chunk is stored,
\* the item of the second is not
C17_Witness ==
  \E s \in Sources :
    /\ ChunkFailed(s)
    /\ run[s].i = BATCH_SIZE
    /\ Len(run[s].deduped) = 2 * BATCH_SIZE
    /\ \E q \in OwnRows(store, s) :
         /\ q.stock_number = run[s].deduped[1].stock_number
         /\ q.updated_at = run[s].deduped[1].updated_at
    /\ \A q \in OwnRows(store, s) :
         q.stock_number # run[s].deduped[2].stock_number

\* upsertInventory of the run of s has written all its chunks
Applied(s) ==
  /\ run[s].error = Null
  /\ run[s].pc \in {"mark", "target", "job", "done"}

\* C18: when every chunk has been written, each key of the batch has
\* exactly one row, and the row holds the values of the last item of the
\* batch that has this key
C18_AllPersisted ==
  \A s \in Sources :
    Applied(s) =>
      \A i \in 1..Len(run[s].clean) :
        LET k == run[s].clean[i].stock_number
            last == CHOOSE j \in 1..Len(run[s].clean) :
                      /\ run[s].clean[j].stock_number = k
                      /\ \A m \in (j + 1)..Len(run[s].clean) :
                           run[s].clean[m].stock_number # k
            rows == {q \in OwnRows(store, s) : q.stock_number = k}
        IN /\ Cardinality(rows) = 1
           /\ \A q \in rows :
                /\ q.title = run[s].clean[last].title
                /\ q.price = run[s].clean[last].price
                /\ q.status = run[s].clean[last].status
                /\ q.updated_at = run[s].clean[last].updated_at

\* a batch of two keys, twice the chunk size, written in two chunks by a
\* run that succeeded
C18_Witness ==
  \E s \in Sources :
    /\ Succeeded(s)
    /\ Len(run[s].clean) = 2 * BATCH_SIZE
    /\ Len(run[s].deduped) = 2 * BATCH_SIZE
    /\ run[s].i = 2 * BATCH_SIZE

\* the products of the site the adapter would keep
Listings(g) == Kept(g, [k \in 1..g.total |-> k])

\* C19: an adapter that returns a list has had every request answered with
\* a 2xx page, and returns the empty list only for a site without listings
C19_NoSilentEmpty ==
  pager.pc = "returned" =>
    /\ \A k \in 1..Len(pager.log) : pager.log[k].how = "page"
    /\ pager.all = <<>> => Listings(pager) = <<>>

\* the first n fetches ended the pagination: the last of them answered a
\* non-empty page shorter than the page size, or the last two answered
\* empty pages
StopSeen(log, n) ==
  \/ /\ n >= 1
     /\ log[n].how = "page" /\ log[n].n > 0 /\ log[n].n < perPage
  \/ /\ n >= 2
     /\ log[n].how = "page" /\ log[n].n = 0
     /\ log[n - 1].how = "page" /\ log[n - 1].n = 0

\* the records of the pages answered in the first n fetches
RECURSIVE Fetched(_, _)
Fetched(g, n) ==
  IF n = 0 THEN <<>>
  ELSE Fetched(g, n - 1) \o
       (IF g.log[n].how = "page"
        THEN Kept(g, PageOf(g.total, g.log[n].page)) ELSE <<>>)

\* C20: the k-th fetch asks for page k; the accumulated list is the
\* records of all pages answered, in order; the adapter goes on as long as
\* it has seen neither two consecutive empty pages nor a short page, and
\* it returns only when it has seen one of them
C20_PaginationStops ==
  pager.pc \in {"fetch", "returned"} =>
    /\ \A k \in 1..Len(pager.log) : pager.log[k].page = k
    /\ pager.all = Fetched(pager, Len(pager.log))
    /\ \A n \in 0..(Len(pager.log) - 1) : ~StopSeen(pager.log, n)
    /\ pager.pc = "returned" => StopSeen(pager.log, Len(pager.log))

\* the run of s has made its call of writeChanges and the insert was done
Wrote(s) ==
  run[s].pc \in {"upsert", "mark", "target", "job", "catch", "done"}
  /\ run[s].appended > 0

\* C22: the log only changes by the insert of the events of a run at its
\* write step, which leaves everything written before in place; the log
\* after that step ends with exactly the events of the run
C22_AppendOnly ==
  /\ [][ changeLog' # changeLog =>
           \E s \in Sources :
             /\ run[s].pc = "write"
             /\ changeLog' = changeLog \o run[s].changes ]_vars
  /\ [](\A s \in Solo :
          Wrote(s) =>
            /\ run[s].appended = Len(run[s].changes)
            /\ Len(changeLog) >= run[s].appended
            /\ SubSeq(changeLog, Len(changeLog) - run[s].appended + 1,
                      Len(changeLog)) = run[s].changes)

\* a run has appended its events to a log that held events of an earlier
\* run
C22_Witness ==
  \E s \in Sources :
    /\ Wrote(s)
    /\ Len(changeLog) > run[s].appended

\* the rows of competitor_inventory with the id of q
SameId(st, q) == {q2 \in st : q2.id = q.id}

\* a key stored for s as Sold and not otherwise
SoldOnly(s, k) ==
  /\ \E q \in OwnRows(store, s) : q.stock_number = k /\ q.status = "Sold"
  /\ k \notin ListedKeys(s)

\* C24: a row's status only goes from Available to Sold, or from Sold to
\* Available in the upsert step of a run whose fresh batch has the row's
\* key; a fresh key stored as Sold gets NEW_LISTING events and nothing else;
\* and after the apply its row is Available
C24_SoldOnlyRevivedBySighting ==
  /\ [][ \A q \in store : \A q2 \in SameId(store', q) :
           q2.status # q.status =>
             \/ q.status = "Available" /\ q2.status = "Sold"
             \/ /\ q.status = "Sold" /\ q2.status = "Available"
                /\ run[q.competitor_name].pc = "upsert"
                /\ q.stock_number \in FreshKeys(q.competitor_name) ]_vars
  /\ [](\A s \in Sources :
          /\ Detected(s) =>
               \A k \in FreshKeys(s) :
                 SoldOnly(s, k) =>
                   /\ EventsOf(s, k) # {}
                   /\ \A j \in EventsOf(s, k) :
                        run[s].changes[j].change_type = "NEW_LISTING"
          /\ Applied(s) =>
               \A k \in FreshKeys(s) :
                 \A q \in OwnRows(store, s) :
                   q.stock_number = k => q.status = "Available")

\* a key that was listed, reported REMOVED and marked Sold, and then seen
\* again: the log has REMOVED followed by NEW_LISTING for it and the row is
\* Available
C24_Witness ==
  \E s \in Sources :
    /\ Succeeded(s)
    /\ \E i, j \in 1..Len(changeLog) :
         /\ i < j
         /\ changeLog[i].change_type = "REMOVED"
         /\ changeLog[j].change_type = "NEW_LISTING"
         /\ changeLog[i].stock_number = changeLog[j].stock_number
         /\ \E q \in OwnRows(store, s) :
              /\ q.stock_number = changeLog[j].stock_number
              /\ q.status = "Available"
              /\ q.stock_number \in FreshKeys(s)

\* the NEW_LISTING and REMOVED events of the log for key k of source s
Lifecycle(s, k) ==
  SelectSeq(changeLog,
            LAMBDA e : /\ e.competitor_name = s
                       /\ e.stock_number = k
                       /\ e.change_type \in {"NEW_LISTING", "REMOVED"})

\* C26: for every source and key, the NEW_LISTING and REMOVED events of
\* the log alternate
C26_ListingsAlternate ==
  \A s \in Sources :
    \A n \in 1..Len(changeLog) :
      LET life == Lifecycle(s, changeLog[n].stock_number)
      IN \A i \in 1..(Len(life) - 1) :
           life[i].change_type # life[i + 1].change_type

\* C27: when run() has returned with error = null, the keys stored for the
\* source with a status other than Sold are the keys of the fresh batch,
\* and every key the run reported REMOVED is stored as Sold
C27_StoreMatchesBatch ==
  \A s \in Sources :
    Succeeded(s) =>
      /\ ListedKeys(s) = FreshKeys(s)
      /\ \A j \in 1..Len(run[s].changes) :
           run[s].changes[j].change_type = "REMOVED"
           => \E q \in OwnRows(store, s) :
                /\ q.stock_number = run[s].changes[j].stock_number
                /\ q.status = "Sold"

\* C28: when run() has returned, the changesDetected of its result, and
\* the changes_detected of its job record, are the number of events the
\* run inserted into inventory_changes
C28_CountMatchesLog ==
  \A s \in Sources :
    run[s].pc = "done" =>
      /\ run[s].result.changesDetected = run[s].appended
      /\ run[s].job # 0
           => JobOf(s).changes_detected = Num(run[s].appended)


\* C29: the targets table changes only in step 7 of a run that has thrown
\* nothing, has inserted its events and written all its chunks, and the
\* change is the last_scraped_at of the run's own target and nothing else;
\* a run that has thrown has not stamped its target
C29_TargetFrame ==
  /\ [][ targets' # targets =>
           \E s \in Sources :
             /\ run[s].pc = "target"
             /\ Applied(s)
             /\ run[s].appended = Len(run[s].changes)
             /\ run[s].i >= Len(run[s].deduped)
             /\ run[s].targetId \in DOMAIN targets
             /\ targets' = [targets EXCEPT
                              ![run[s].targetId].last_scraped_at = clock] ]_vars
  /\ [](\A s \in Sources : run[s].stamped => run[s].error = Null)

\* a run has returned without error and stamped its target, and the other
\* target still has no timestamp
C29_Witness ==
  \E s \in Sources :
    /\ Succeeded(s)
    /\ run[s].stamped
    /\ targets[run[s].targetId].last_scraped_at = clock
    /\ targets[run[s].targetId].is_active
    /\ \E x \in DOMAIN targets :
         x # run[s].targetId /\ targets[x].last_scraped_at = 0


\* a row without the columns the database and the clock fill in
Content(q) ==
  [ company_id |-> q.company_id, competitor_name |-> q.competitor_name,
    title |-> q.title, price |-> q.price,
    stock_number |-> q.stock_number, status |-> q.status ]

\* the run of s is between its call and its first write to the store
BeforeApply(s) ==
  \/ run[s].pc \in {"scrape", "detect", "write"}
  \/ run[s].pc = "upsert" /\ run[s].i = 0

\* C23: with the runs of two sources interleaved, the rows of a source
\* and the events of a source change only in steps of that source's own
\* run; the events a run emits are those detectChanges computes from the
\* rows the source had when the run was called; and when the run has
\* returned without error the rows of the source are those rows with the
\* fresh batch upserted and the removed keys marked Sold, as when the run
\* is the only one
C23_PipelinesIndependent ==
  /\ [][ \A s \in Sources :
           \/ run'[s] # run[s]
           \/ /\ OwnRows(store', s) = OwnRows(store, s)
              /\ SelectSeq(changeLog', LAMBDA e : e.competitor_name = s)
                 = SelectSeq(changeLog, LAMBDA e : e.competitor_name = s) ]_vars
  /\ [](\A s \in Sources :
          /\ BeforeApply(s) => OwnRows(store, s) = run[s].snap
          /\ Detected(s) =>
               \E existing \in
                   Orderings(ExistingRows(run[s].snap, CompanyId, s)) :
                 run[s].changes =
                   detectChanges(CompanyId, s, run[s].clean, existing)
          /\ Succeeded(s) =>
               {Content(q) : q \in OwnRows(store, s)}
               = {Content(q) :
                    q \in MarkSold(UpsertRows(run[s].snap, run[s].deduped),
                                   CompanyId, s, run[s].removed, clock)})

\* the run of s2 was called first and is still marking its removed rows
\* when the run of s1, called later, has returned with events of its own
C23_Witness ==
  /\ Succeeded("s1")
  /\ Len(run["s1"].removed) > 0
  /\ run["s2"].pc = "mark"
  /\ run["s2"].job < run["s1"].job


\* the cards of pages p..g.total_pages as parseCards reads them
RECURSIVE CardsFrom(_, _)
CardsFrom(g, p) ==
  IF p > g.total_pages THEN <<>>
  ELSE parseCards(g, Template(g, p)) \o CardsFrom(g, p + 1)

\* C21: when the faceted-search adapter returns, its result holds the
\* cards of every page 1..total_pages
C21_AllPagesReturned ==
  (pager.kind = "facetwp" /\ pager.pc = "returned")
    => pager.allCards = CardsFrom(pager, 1)


\* C25: no job record stays in status running forever
C25_NoRunHangs ==
  \A j \in 1..MaxRuns :
    (j \in DOMAIN jobs /\ jobs[j].status = "running")
      ~> (j \in DOMAIN jobs /\ jobs[j].status = "failed")
         \/ (j \in DOMAIN jobs /\ jobs[j].status = "success")


\* C30: no two rows of market_intel.inventory of one dealer have the same
\* VIN, and no two the same stock number
C30_OneRowPerUnit == ~KeyClash(market.rows)

====
